---- MODULE Spec2Model ----
(***************************************************************************)
(* Real-time synchronisation core of the collaborative notepad:            *)
(* the Socket.IO handlers of the server (join-notepad, content-change,     *)
(* disconnect), the presence map activeUsers, the notepads table written   *)
(* by updateNotepad, and the part of the browser client that saves content *)
(* and waits for the acknowledgment.                                       *)
(*                                                                         *)
(* Node runs every handler to its next await without preemption, so each   *)
(* action below is one such run.  The content-change handler has one       *)
(* await (db.updateNotepad): it is split into the run up to the await      *)
(* (ContentChange), the execution of the UPDATE statement by sqlite        *)
(* (DbRun) and the run from the statement's callback to the end of the     *)
(* handler (Callback).  sqlite executes the statements of one connection   *)
(* one at a time, in any order, and the binding reports their results in   *)
(* the order in which they were executed.                                  *)
(*                                                                         *)
(* Three specifications share the handlers.  Spec: sockets opened by any   *)
(* program, both notepads have a row.  SpecEvents: the same sockets and    *)
(* the feedback route, every handler run recorded with the events it       *)
(* emits, and an id without a row.  SpecClient: the sockets are those of   *)
(* pages of the browser client, which log in first.                        *)
(***************************************************************************)
EXTENDS Integers, Sequences, FiniteSets, TLC

\* Socket ids.  Socket.IO gives every connection a fresh id; the model hands
\* them out in this order and never reuses one.
Conns == <<"c1", "c2">>

ConnIds == {Conns[i] : i \in 1..Len(Conns)}

\* Notepad ids: 'main' (the row of initializeMainNotepad) and 'n1' (an id as
\* createNotepad hands out).  Init says which of them have a row.
NotepadIds == {"main", "n1"}

\* Editor contents.  The server stores and forwards a text without looking
\* into it, so every save carries a text of its own: Texts[i] is the text of
\* the i-th content-change the server receives.
Texts == <<"A", "B", "C", "D">>

\* Number of content-change events the model follows.
MaxSubs == 2

\* Number of content-change events followed where every handler run is
\* observed with the events it emits (SpecEvents).
MaxEventSubs == 1

\* Number of content-change events followed where the sockets belong to pages
\* of the browser client (SpecClient).
MaxClientSubs == 1

\* The name the client of a connection authenticated with.
currentUsername(c) == IF c = "c1" THEN "sabs" ELSE "separate"

VARIABLES
  conn,         \* conn[c]: "idle" (not yet connected), "open", "closed"
  rooms,        \* Socket.IO rooms: rooms[d] = sockets that joined room d
  activeUsers,  \* the server's presence map: a function on the ids that have an entry
  notepads,     \* the notepads table: id -> [content, last_editor]
  subs,         \* the content-change events received so far, in order of receipt
  cbQueue,      \* statements executed by sqlite whose callback has not run yet
  commits,      \* the statements that ran without error, in execution order
  updates,      \* the content-update events emitted so far, in emission order
  lastActive,   \* lastActive[d]: the last active-users event emitted to room d
  feedback,     \* feedback[d]: "pending" while a POST /api/notepad/d/feedback runs
  last,         \* the handler that ran last and the events it emitted
  client,       \* client[c]: the page whose socket is (or would be) c; empty
                \* where the sockets are opened by any program
  clock,        \* the server's clock and the times it has stamped
  page          \* page[c]: the editor of the page of c and the events on
                \* their way to it; empty where no page is followed

vars == <<conn, rooms, activeUsers, notepads, subs, cbQueue, commits,
          updates, lastActive, feedback, last, client, clock, page>>

\* what the specifications that do not follow single handler runs leave alone
\* what only the specification of the pages' editors follows
shown == <<clock, page>>

observed == <<feedback, last, client, shown>>

NoEditor == "NULL"

\* the clock and the editors where a specification does not follow them
NoClock == [now |-> 0]

NoPages == [c \in {} |-> ""]

NotEmitted == [emitted |-> FALSE, count |-> 0, to |-> {}]

\* The script state of a page /notepad/<notepadId> that has just loaded: the
\* login form is up (authModal), socket is undefined, isAuthenticated and
\* isBlankMode are false.  response is the answer to its last login request,
\* saveStatus what the save indicator shows.
LoadedPage(notepadId) ==
  [notepadId |-> notepadId,
   authModal |-> TRUE,
   socket |-> FALSE,
   isAuthenticated |-> FALSE,
   isBlankMode |-> FALSE,
   response |-> "none",
   saveStatus |-> "idle"]

----------------------------------------------------------------------------
(* database.js *)

\* a new row that starts with a text
NewNotepadWithText == [content |-> "A", last_editor |-> "NULL"]

\* INSERT INTO notepads (id, content) VALUES (?, '')
NewNotepad == [content |-> "", last_editor |-> NoEditor]

\* updateNotepad with a guard that keeps a text already stored
updateNotepadIfEmpty(table, notepadId, content, editor) ==
  IF notepadId \in DOMAIN table /\ table[notepadId].content = ""
    THEN [table EXCEPT ![notepadId] =
            [content |-> content, last_editor |-> editor]]
    ELSE table

\* UPDATE notepads SET content = ?, ..., last_editor = ? WHERE id = ?
\* (a statement that matches no row changes nothing and reports no error)
updateNotepad(table, notepadId, content, editor) ==
  IF notepadId \in DOMAIN table
    THEN [table EXCEPT ![notepadId] =
            [content |-> content, last_editor |-> editor]]
    ELSE table

----------------------------------------------------------------------------
(* Socket.IO primitives used by the server *)

\* io.to(room).emit(...): every socket in the room
RoomTargets(room) == room

\* io.to(room).emit(...) where socket.to(room).emit(...) was meant
BroadcastTargetsAll(room, sender) == room

\* socket.to(room).emit(...): every socket in the room except the sender
BroadcastTargets(room, sender) == room \ {sender}

\* an event as it leaves the server: its name, the room it is emitted to, the
\* sockets it goes to, and the count it carries (active-users only)
Event(name, notepadId, to, count) ==
  [event |-> name, notepadId |-> notepadId, to |-> to, count |-> count]

\* io.to(notepadId).emit('active-users', size)
ActiveUsersEvent(notepadId, size, room) ==
  Event("active-users", notepadId, RoomTargets(room), size)

\* lastActive after the active-users events of one handler run
RecordActive(la, events) ==
  LET evs == events
  IN [d \in NotepadIds |->
        IF \E e \in evs : e.notepadId = d
          THEN LET e == CHOOSE x \in evs : x.notepadId = d
               IN [emitted |-> TRUE, count |-> e.count, to |-> e.to]
          ELSE la[d]]

----------------------------------------------------------------------------
(* server: io.on('connection') *)

Init ==
  /\ conn = [c \in ConnIds |-> "idle"]
  /\ rooms = [d \in NotepadIds |-> {}]
  /\ activeUsers = [d \in {} |-> {}]
  /\ notepads = [d \in NotepadIds |-> NewNotepad]
  /\ subs = << >>
  /\ cbQueue = << >>
  /\ commits = << >>
  /\ updates = << >>
  /\ lastActive = [d \in NotepadIds |-> NotEmitted]
  /\ feedback = [d \in NotepadIds |-> "none"]
  /\ last = [op |-> "start", conn |-> "-", notepadId |-> "-", left |-> {},
             events |-> {}, status |-> "-"]
  /\ client = [c \in {} |-> LoadedPage("main")]
  /\ clock = NoClock
  /\ page = NoPages

\* A client opens a socket.
Connect(i) ==
  /\ i \in 1..Len(Conns)
  /\ conn[Conns[i]] = "idle"
  /\ \A j \in 1..(i - 1) : conn[Conns[j]] # "idle"
  /\ conn' = [conn EXCEPT ![Conns[i]] = "open"]
  /\ UNCHANGED <<rooms, activeUsers, notepads, subs, cbQueue, commits,
                 updates, lastActive>>

\* join-notepad that takes the socket out of a set that already has it
JoinPresenceToggle(au, notepadId, c) ==
  [d \in DOMAIN au \cup {notepadId} |->
     IF d # notepadId THEN au[d]
     ELSE IF d \in DOMAIN au
            THEN (IF c \in au[d] THEN au[d] \ {c} ELSE au[d] \cup {c})
            ELSE {c}]

\* activeUsers after the join-notepad handler
JoinPresence(au, notepadId, c) ==
  LET withEntry == IF notepadId \in DOMAIN au
                     THEN au
                     ELSE [d \in DOMAIN au \cup {notepadId} |->
                             IF d = notepadId THEN {} ELSE au[d]]
  IN [withEntry EXCEPT ![notepadId] = @ \cup {c}]

\* the count sent with socket.to(notepadId): the joiner is left out
JoinEventsToOthers(au, rm, c, notepadId) ==
  {Event("active-users", notepadId, BroadcastTargets(rm[notepadId], c),
         Cardinality(au[notepadId]))}

\* The events of the join-notepad handler: the size of the set after the add,
\* to the room the socket has just joined (au, rm: the map and the rooms
\* after the add).
JoinEvents(au, rm, c, notepadId) ==
  {ActiveUsersEvent(notepadId, Cardinality(au[notepadId]), rm[notepadId])}

\* join-notepad that also sends the joiner the content-update events the room
\* got before
JoinNotepadReplay(c, notepadId) ==
  /\ conn[c] = "open"
  /\ rooms' = [rooms EXCEPT ![notepadId] = @ \cup {c}]
  /\ activeUsers' = JoinPresence(activeUsers, notepadId, c)
  /\ lastActive' = RecordActive(lastActive,
                                JoinEvents(activeUsers', rooms', c, notepadId))
  /\ updates' = [k \in 1..Len(updates) |->
                   IF updates[k].notepadId = notepadId
                     THEN [updates[k] EXCEPT !.to = @ \cup {c}]
                     ELSE updates[k]]
  /\ UNCHANGED <<conn, notepads, subs, cbQueue, commits>>

\* socket.on('join-notepad')
JoinNotepad(c, notepadId) ==
  /\ conn[c] = "open"
  /\ rooms' = [rooms EXCEPT ![notepadId] = @ \cup {c}]
  /\ activeUsers' = JoinPresence(activeUsers, notepadId, c)
  /\ lastActive' = RecordActive(lastActive,
                                JoinEvents(activeUsers', rooms', c, notepadId))
  /\ UNCHANGED <<conn, notepads, subs, cbQueue, commits, updates>>

\* disconnect that stops at the first set that has the socket
DisconnectPresenceFirst(au, c) ==
  LET has == {d \in DOMAIN au : c \in au[d]}
      first == IF has = {} THEN {} ELSE {CHOOSE d \in has : TRUE}
      emptied == {d \in first : au[d] \ {c} = {}}
  IN [d \in DOMAIN au \ emptied |-> IF d \in first THEN au[d] \ {c} ELSE au[d]]

\* disconnect that never deletes an entry
DisconnectPresenceKeepEmpty(au, c) == [d \in DOMAIN au |-> au[d] \ {c}]

\* activeUsers after the disconnect handler: the socket is deleted from every
\* set that has it, and an entry whose set became empty is deleted
DisconnectPresence(au, c) ==
  LET emptied == {d \in DOMAIN au : c \in au[d] /\ au[d] \ {c} = {}}
  IN [d \in DOMAIN au \ emptied |-> au[d] \ {c}]

\* the count taken before the socket is deleted from the set
DisconnectCountBefore(au, d, c) == Cardinality(au[d])

\* the count the disconnect handler emits to room d
DisconnectCount(au, d, c) == Cardinality(au[d] \ {c})

\* disconnect without the has() test: an event for every entry
DisconnectEventsAll(au, rm, c) ==
  {ActiveUsersEvent(d, DisconnectCount(au, d, c), rm[d]) : d \in DOMAIN au}

\* The events of the disconnect handler: one for every entry that has the
\* socket (au: the map before the handler, rm: the rooms without the socket).
DisconnectEvents(au, rm, c) ==
  {ActiveUsersEvent(d, DisconnectCount(au, d, c), rm[d]) :
     d \in {e \in DOMAIN au : c \in au[e]}}

\* socket.on('disconnect'); Socket.IO has taken the socket out of its rooms
\* before the handler runs
Disconnect(c) ==
  /\ conn[c] = "open"
  /\ conn' = [conn EXCEPT ![c] = "closed"]
  /\ rooms' = [d \in NotepadIds |-> rooms[d] \ {c}]
  /\ activeUsers' = DisconnectPresence(activeUsers, c)
  /\ lastActive' = RecordActive(lastActive,
                                DisconnectEvents(activeUsers, rooms', c))
  /\ UNCHANGED <<notepads, subs, cbQueue, commits, updates>>

\* a content-update event that names the socket instead of the user
ContentUpdateSocketId(i, s, room) ==
  [sub |-> i,
   notepadId |-> s.notepadId,
   room |-> room,
   to |-> BroadcastTargets(room, s.conn),
   content |-> s.content,
   editor |-> s.conn]

\* The content-update event of submission i (s is its record): emitted with
\* socket.to(s.notepadId), to the room as it is when the handler emits.
ContentUpdate(i, s, room) ==
  [sub |-> i,
   notepadId |-> s.notepadId,
   room |-> room,
   to |-> BroadcastTargets(room, s.conn),
   content |-> s.content,
   editor |-> s.username]

\* The payloads the client of connection c may send with the i-th
\* content-change (saveContent: a notepad id, the editor's content, the name
\* it logged in with).
ChangeData(c, i) ==
  [notepadId : NotepadIds, content : {Texts[i]},
   username : {currentUsername(c)}]

\* the record the server keeps of a content-change while its handler runs
NewSub(c, data) ==
  [conn |-> c,
   notepadId |-> data.notepadId,
   content |-> data.content,
   username |-> data.username,
   stage |-> "pending",
   err |-> FALSE,
   ack |-> "none"]

\* content-change without the await: the event is emitted before the UPDATE
\* has run
ContentChangeNoAwait(c, data) ==
  /\ conn[c] = "open"
  /\ Len(subs) < MaxSubs
  /\ subs' = Append(subs, NewSub(c, data))
  /\ updates' = Append(updates, ContentUpdate(Len(subs) + 1, NewSub(c, data),
                                              rooms[data.notepadId]))
  /\ UNCHANGED <<conn, rooms, activeUsers, notepads, cbQueue, commits,
                 lastActive>>

\* socket.on('content-change'), up to the await: the UPDATE is handed to
\* sqlite.  The handler takes no acknowledgment callback, so the one the
\* client passed is dropped (ack stays "none").
ContentChange(c, data) ==
  /\ conn[c] = "open"
  /\ Len(subs) < MaxSubs
  /\ subs' = Append(subs, NewSub(c, data))
  /\ UNCHANGED <<conn, rooms, activeUsers, notepads, cbQueue, commits,
                 updates, lastActive>>

\* socket.on('content-change') with no payload (socket.emit('content-change')
\* or a null): the destructuring of data, which stands before the try block,
\* throws a TypeError, so the promise of the async handler is rejected and
\* nothing handles it.  No statement reaches sqlite and nothing is emitted.
\* Where Node ends the process on an unhandled rejection the behaviour stops
\* here; the model follows the server that goes on.
ContentChangeNoData(c) ==
  /\ conn[c] = "open"
  /\ UNCHANGED <<conn, rooms, activeUsers, notepads, subs, cbQueue, commits,
                 updates, lastActive, feedback, client>>

\* a statement that fails after it has written the row
RunUpdateDespiteError(table, s, err) ==
  updateNotepad(table, s.notepadId, s.content, s.username)

\* The table after sqlite ran the statement of submission s: a statement that
\* fails changes nothing.
RunUpdate(table, s, err) ==
  IF err THEN table
         ELSE updateNotepad(table, s.notepadId, s.content, s.username)

\* statements run strictly in the order they were handed to sqlite, as under
\* db.serialize() with a slow first statement
DbRunInOrder(i, err) ==
  /\ i \in 1..Len(subs)
  /\ subs[i].stage = "pending"
  /\ \A j \in 1..(i - 1) : subs[j].stage # "pending"
  /\ notepads' = RunUpdate(notepads, subs[i], err)
  /\ subs' = [subs EXCEPT ![i].stage = "executed", ![i].err = err]
  /\ cbQueue' = Append(cbQueue, i)
  /\ commits' = IF err THEN commits ELSE Append(commits, i)
  /\ UNCHANGED <<conn, rooms, activeUsers, updates, lastActive>>

\* db.run: sqlite executes the UPDATE of submission i, or fails to
DbRun(i, err) ==
  /\ i \in 1..Len(subs)
  /\ subs[i].stage = "pending"
  /\ notepads' = RunUpdate(notepads, subs[i], err)
  /\ subs' = [subs EXCEPT ![i].stage = "executed", ![i].err = err]
  /\ cbQueue' = Append(cbQueue, i)
  /\ commits' = IF err THEN commits ELSE Append(commits, i)
  /\ UNCHANGED <<conn, rooms, activeUsers, updates, lastActive>>

\* the emit moved out of the try block: it runs after the catch as well
EmitAlways(i, s, room) == <<ContentUpdate(i, s, room)>>

\* The events the handler emits once updateNotepad has settled: the
\* content-update after a resolve, nothing in the catch branch.
EmitAfterUpdate(i, s, room) ==
  IF s.err THEN << >> ELSE <<ContentUpdate(i, s, room)>>

\* a handler that emits only for a sender that is in the room it names
CallbackIfJoined(i) ==
  /\ cbQueue # << >>
  /\ i = Head(cbQueue)
  /\ cbQueue' = Tail(cbQueue)
  /\ subs' = [subs EXCEPT ![i].stage = "done"]
  /\ updates' = IF subs[i].conn \in rooms[subs[i].notepadId]
                  THEN updates \o EmitAfterUpdate(i, subs[i],
                                                  rooms[subs[i].notepadId])
                  ELSE updates
  /\ UNCHANGED <<conn, rooms, activeUsers, notepads, commits, lastActive>>

\* a handler that emits nothing once its socket has disconnected
CallbackDropClosed(i) ==
  /\ cbQueue # << >>
  /\ i = Head(cbQueue)
  /\ cbQueue' = Tail(cbQueue)
  /\ subs' = [subs EXCEPT ![i].stage = "done"]
  /\ updates' = IF conn[subs[i].conn] = "open"
                  THEN updates \o EmitAfterUpdate(i, subs[i],
                                                  rooms[subs[i].notepadId])
                  ELSE updates
  /\ UNCHANGED <<conn, rooms, activeUsers, notepads, commits, lastActive>>

\* The callback of db.run settles the promise and the handler runs to its end.
Callback(i) ==
  /\ cbQueue # << >>
  /\ i = Head(cbQueue)
  /\ cbQueue' = Tail(cbQueue)
  /\ subs' = [subs EXCEPT ![i].stage = "done"]
  /\ updates' = updates \o EmitAfterUpdate(i, subs[i], rooms[subs[i].notepadId])
  /\ UNCHANGED <<conn, rooms, activeUsers, notepads, commits, lastActive>>

Next ==
  \/ \E i \in 1..Len(Conns) : Connect(i) /\ UNCHANGED observed
  \/ \E c \in ConnIds, d \in NotepadIds :
        JoinNotepad(c, d) /\ UNCHANGED observed
  \/ \E c \in ConnIds : Disconnect(c) /\ UNCHANGED observed
  \/ \E c \in ConnIds : \E data \in ChangeData(c, Len(subs) + 1) :
        ContentChange(c, data) /\ UNCHANGED observed
  \/ \E i \in 1..MaxSubs, err \in BOOLEAN : DbRun(i, err) /\ UNCHANGED observed
  \/ \E i \in 1..MaxSubs : Callback(i) /\ UNCHANGED observed

Spec == Init /\ [][Next]_vars

----------------------------------------------------------------------------
(* server: HTTP routes *)

\* POST /api/notepad/create -> createNotepad: a row with empty content under
\* a fresh id
CreateNotepad(id) ==
  /\ id \notin DOMAIN notepads
  /\ notepads' = [d \in DOMAIN notepads \cup {id} |->
                    IF d = id THEN NewNotepad ELSE notepads[d]]
  /\ UNCHANGED <<conn, rooms, activeUsers, subs, cbQueue, commits, updates,
                 lastActive, feedback>>

\* The answer of POST /api/notepad/:id/auth: 404 when getNotepad finds no
\* row; else verifyUser decides (valid: the row of the user is there and the
\* password matches), and a wrong password is answered with success and the
\* blank flag.
AuthResponse(table, id, valid) ==
  IF id \notin DOMAIN table
    THEN [status |-> 404, success |-> FALSE, blank |-> FALSE]
    ELSE IF valid
      THEN [status |-> 200, success |-> TRUE, blank |-> FALSE]
      ELSE [status |-> 200, success |-> TRUE, blank |-> TRUE]

\* The answer of GET /api/notepad/:id
GetResponse(table, id) ==
  IF id \notin DOMAIN table
    THEN [status |-> 404, success |-> FALSE, content |-> ""]
    ELSE [status |-> 200, success |-> TRUE, content |-> table[id].content]

\* The answer of GET /api/notepad/:id/export/:format
ExportResponse(table, id, format) ==
  IF id \notin DOMAIN table
    THEN [status |-> 404, success |-> FALSE, body |-> ""]
    ELSE IF format \in {"raw", "markdown", "code"}
      THEN [status |-> 200, success |-> TRUE, body |-> table[id].content]
      ELSE [status |-> 400, success |-> FALSE, body |-> ""]

\* POST /api/notepad/:id/feedback, up to the await: the INSERT is handed to
\* sqlite (the model follows one request at a time)
PostFeedback(id) ==
  /\ \A d \in NotepadIds : feedback[d] = "none"
  /\ feedback' = [feedback EXCEPT ![id] = "pending"]
  /\ UNCHANGED <<conn, rooms, activeUsers, notepads, subs, cbQueue, commits,
                 updates, lastActive>>

\* feedback-added emitted before the await: also when the INSERT fails
FeedbackEventsBeforeInsert(rm, id, err) ==
  {Event("feedback-added", id, RoomTargets(rm[id]), 0)}

\* feedback-added sent with io.emit: to every socket of every room
FeedbackEventsEverywhere(rm, id, err) ==
  IF err THEN {}
         ELSE {Event("feedback-added", id, UNION {rm[d] : d \in DOMAIN rm}, 0)}

\* The events of the feedback route once addFeedback has settled:
\* io.to(id).emit('feedback-added', ...) after a resolve, nothing in the catch.
FeedbackEvents(rm, id, err) ==
  IF err THEN {}
         ELSE {Event("feedback-added", id, RoomTargets(rm[id]), 0)}

\* The answer of the feedback route: res.json({success: true, ...}) after the
\* emit, res.status(500) from the catch.
FeedbackStatus(err) == IF err THEN "500" ELSE "200"

\* addFeedback settles and the route runs to its response
FeedbackDone(id, err) ==
  /\ feedback[id] = "pending"
  /\ feedback' = [feedback EXCEPT ![id] = "none"]
  /\ UNCHANGED <<conn, rooms, activeUsers, notepads, subs, cbQueue, commits,
                 updates, lastActive>>

----------------------------------------------------------------------------
(* Every handler run observed with the events it emits.  The notepads table
   has the 'main' row only: 'n1' is an id without a row, which any socket and
   any request may still name. *)

InitEvents ==
  /\ conn = [c \in ConnIds |-> "idle"]
  /\ rooms = [d \in NotepadIds |-> {}]
  /\ activeUsers = [d \in {} |-> {}]
  /\ notepads = [d \in {"main"} |-> NewNotepad]
  /\ subs = << >>
  /\ cbQueue = << >>
  /\ commits = << >>
  /\ updates = << >>
  /\ lastActive = [d \in NotepadIds |-> NotEmitted]
  /\ feedback = [d \in NotepadIds |-> "none"]
  /\ last = [op |-> "start", conn |-> "-", notepadId |-> "-", left |-> {},
             events |-> {}, status |-> "-"]
  /\ client = [c \in {} |-> LoadedPage("main")]
  /\ clock = NoClock
  /\ page = NoPages

\* handler op ran for socket c and room notepadId; Socket.IO took the socket
\* out of the rooms `left` before it; the handler emitted `events`
Ran(op, c, notepadId, left, events) ==
  last' = [op |-> op, conn |-> c, notepadId |-> notepadId, left |-> left,
           events |-> events, status |-> "-"]

\* route op ran for notepad id, emitted `events` and answered with `status`;
\* for a socket handler, status is how its run ended when it did not return
Responded(op, c, notepadId, events, status) ==
  last' = [op |-> op, conn |-> c, notepadId |-> notepadId, left |-> {},
           events |-> events, status |-> status]

\* the content-update events appended to the log in this step
NewUpdateEvents ==
  {Event("content-update", updates'[k].notepadId, updates'[k].to, 0) :
     k \in (Len(updates) + 1)..Len(updates')}

NextEvents ==
  \/ \E i \in 1..Len(Conns) :
        /\ Connect(i)
        /\ Ran("connection", Conns[i], "-", {}, {})
        /\ UNCHANGED <<feedback, client>>
        /\ UNCHANGED shown
  \/ \E c \in ConnIds, d \in NotepadIds :
        /\ JoinNotepad(c, d)
        /\ Ran("join-notepad", c, d, {},
               JoinEvents(activeUsers', rooms', c, d))
        /\ UNCHANGED <<feedback, client>>
        /\ UNCHANGED shown
  \/ \E c \in ConnIds :
        /\ Disconnect(c)
        /\ Ran("disconnect", c, "-", {d \in NotepadIds : c \in rooms[d]},
               DisconnectEvents(activeUsers, rooms', c))
        /\ UNCHANGED <<feedback, client>>
        /\ UNCHANGED shown
  \/ \E c \in ConnIds : \E data \in ChangeData(c, Len(subs) + 1) :
        /\ Len(subs) < MaxEventSubs
        /\ ContentChange(c, data)
        /\ Ran("content-change", c, data.notepadId, {}, {})
        /\ UNCHANGED <<feedback, client>>
        /\ UNCHANGED shown
  \/ \E i \in 1..MaxSubs, err \in BOOLEAN : DbRun(i, err) /\ UNCHANGED observed
  \/ \E i \in 1..MaxSubs :
        /\ Callback(i)
        /\ Ran("content-change", subs[i].conn, subs[i].notepadId, {},
               NewUpdateEvents)
        /\ UNCHANGED <<feedback, client>>
        /\ UNCHANGED shown
  \/ \E c \in ConnIds :
        /\ ContentChangeNoData(c)
        /\ Responded("content-change", c, "-", {}, "unhandledRejection")
        /\ UNCHANGED shown
  \/ \E id \in NotepadIds : PostFeedback(id) /\ UNCHANGED <<last, client, shown>>
  \/ \E id \in NotepadIds, err \in BOOLEAN :
        /\ FeedbackDone(id, err)
        /\ Responded("feedback", "-", id, FeedbackEvents(rooms, id, err),
                     FeedbackStatus(err))
        /\ UNCHANGED client
        /\ UNCHANGED shown

SpecEvents == InitEvents /\ [][NextEvents]_vars

----------------------------------------------------------------------------
(* The server with pages of the browser client: socket c is the one the page
   client[c] opens in initializeSocket, and no other traffic reaches the
   server.  The table starts with the 'main' row; 'n1' is made by
   POST /api/notepad/create. *)

\* a login handler that does not look at data.blank
AfterAuthIgnoreBlank(cl, resp) ==
  IF resp.success
    THEN [cl EXCEPT !.response = IF resp.blank THEN "blank" ELSE "valid",
                    !.isAuthenticated = TRUE, !.isBlankMode = FALSE,
                    !.authModal = FALSE, !.socket = TRUE]
    ELSE [cl EXCEPT !.response = "failed"]

\* The page after the answer to its login request (authForm submit): blank
\* mode after data.blank; after correct credentials isAuthenticated and
\* initializeSocket(), which sets socket; else the form stays up.
AfterAuth(cl, resp) ==
  IF resp.success
    THEN IF resp.blank
      THEN [cl EXCEPT !.response = "blank", !.isBlankMode = TRUE,
                      !.authModal = FALSE]
      ELSE [cl EXCEPT !.response = "valid", !.isAuthenticated = TRUE,
                      !.isBlankMode = FALSE, !.authModal = FALSE,
                      !.socket = TRUE]
    ELSE [cl EXCEPT !.response = "failed"]

\* saveContent: if (socket && !isBlankMode)
CanEmit(cl) == cl.socket /\ ~cl.isBlankMode

InitClient ==
  /\ conn = [c \in ConnIds |-> "idle"]
  /\ rooms = [d \in NotepadIds |-> {}]
  /\ activeUsers = [d \in {} |-> {}]
  /\ notepads = [d \in {"main"} |-> NewNotepad]
  /\ subs = << >>
  /\ cbQueue = << >>
  /\ commits = << >>
  /\ updates = << >>
  /\ lastActive = [d \in NotepadIds |-> NotEmitted]
  /\ feedback = [d \in NotepadIds |-> "none"]
  /\ last = [op |-> "start", conn |-> "-", notepadId |-> "-", left |-> {},
             events |-> {}, status |-> "-"]
  /\ client \in [ConnIds -> {LoadedPage(d) : d \in NotepadIds}]
  /\ clock = NoClock
  /\ page = NoPages

\* authForm submit: the login request and the page's handling of the answer
AuthSubmit(c, valid) ==
  /\ client[c].authModal
  /\ client' = [client EXCEPT ![c] =
                  AfterAuth(@, AuthResponse(notepads, @.notepadId, valid))]
  /\ UNCHANGED <<conn, rooms, activeUsers, notepads, subs, cbQueue, commits,
                 updates, lastActive, feedback>>

\* initializeSocket: io() connects
PageConnect(c) ==
  /\ client[c].socket
  /\ conn[c] = "idle"
  /\ conn' = [conn EXCEPT ![c] = "open"]
  /\ UNCHANGED <<rooms, activeUsers, notepads, subs, cbQueue, commits,
                 updates, lastActive, feedback, client>>

\* initializeSocket: socket.emit('join-notepad', notepadId), sent once
PageJoin(c) ==
  /\ client[c].socket
  /\ c \notin rooms[client[c].notepadId]
  /\ JoinNotepad(c, client[c].notepadId)
  /\ UNCHANGED <<feedback, client>>

\* saveContent (after input, Ctrl+S, paste or an upload): the indicator shows
\* 'saving', and content-change is emitted under CanEmit
SaveContent(c, data) ==
  /\ data.notepadId = client[c].notepadId
  /\ client' = [client EXCEPT ![c].saveStatus = "saving"]
  /\ IF CanEmit(client[c])
       THEN /\ Len(subs) < MaxClientSubs
            /\ ContentChange(c, data)
       ELSE UNCHANGED <<conn, rooms, activeUsers, notepads, subs, cbQueue,
                        commits, updates, lastActive>>
  /\ UNCHANGED feedback

\* socket.on('cursor-position'): cursor-update to the others in the room.  No
\* script of the page sends the event; the handler is there for any open
\* socket.
CursorPosition(c, notepadId) ==
  /\ conn[c] = "open"
  /\ UNCHANGED <<conn, rooms, activeUsers, notepads, subs, cbQueue, commits,
                 updates, lastActive, feedback, client>>

\* the cursor-update event of the cursor-position handler
CursorEvents(rm, c, notepadId) ==
  {Event("cursor-update", notepadId, BroadcastTargets(rm[notepadId], c), 0)}

NextClient ==
  \/ \E c \in ConnIds, valid \in BOOLEAN :
        /\ AuthSubmit(c, valid)
        /\ Ran("auth", c, client[c].notepadId, {}, {})
        /\ UNCHANGED shown
  \/ \E c \in ConnIds :
        /\ PageConnect(c)
        /\ Ran("connection", c, "-", {}, {})
        /\ UNCHANGED shown
  \/ \E c \in ConnIds :
        /\ PageJoin(c)
        /\ Ran("join-notepad", c, client[c].notepadId, {},
               JoinEvents(activeUsers', rooms', c, client[c].notepadId))
        /\ UNCHANGED shown
  \/ \E c \in ConnIds :
        /\ Disconnect(c)
        /\ Ran("disconnect", c, "-", {d \in NotepadIds : c \in rooms[d]},
               DisconnectEvents(activeUsers, rooms', c))
        /\ UNCHANGED <<feedback, client>>
        /\ UNCHANGED shown
  \/ \E c \in ConnIds : \E data \in ChangeData(c, Len(subs) + 1) :
        /\ SaveContent(c, data)
        /\ IF CanEmit(client[c])
             THEN Ran("content-change", c, data.notepadId, {}, {})
             ELSE UNCHANGED last
        /\ UNCHANGED shown
  \/ \E i \in 1..MaxSubs, err \in BOOLEAN : DbRun(i, err) /\ UNCHANGED observed
  \/ \E i \in 1..MaxSubs :
        /\ Callback(i)
        /\ Ran("content-change", subs[i].conn, subs[i].notepadId, {},
               NewUpdateEvents)
        /\ UNCHANGED <<feedback, client>>
        /\ UNCHANGED shown
  \/ \E c \in ConnIds, d \in NotepadIds :
        /\ CursorPosition(c, d)
        /\ Ran("cursor-position", c, d, {}, CursorEvents(rooms, c, d))
        /\ UNCHANGED shown
  \/ \E id \in NotepadIds :
        /\ CreateNotepad(id)
        /\ Ran("create", "-", id, {}, {})
        /\ UNCHANGED client
        /\ UNCHANGED shown
  \/ \E c \in ConnIds :
        /\ ~client[c].authModal /\ ~client[c].isBlankMode
        /\ PostFeedback(client[c].notepadId)
        /\ UNCHANGED <<last, client>>
        /\ UNCHANGED shown
  \/ \E id \in NotepadIds, err \in BOOLEAN :
        /\ FeedbackDone(id, err)
        /\ Responded("feedback", "-", id, FeedbackEvents(rooms, id, err),
                     FeedbackStatus(err))
        /\ UNCHANGED client
        /\ UNCHANGED shown

SpecClient == InitClient /\ [][NextClient]_vars

----------------------------------------------------------------------------
(* client: the editor, and the server's clock *)

\* the submissions followed where the editors of the pages are
MaxPageSubs == 2

\* the last value of the clock
MaxClock == 2

\* the names a page can have logged in with
Usernames == {currentUsername(c) : c \in ConnIds}

\* What editor.innerHTML can hold when the i-th save runs: a plain text, or
\* the markup the editor makes of bold text.
Typed(i) == {Texts[i], "<b>"}

\* escapeHtml: div.textContent = text; return div.innerHTML.  The characters
\* &, < and > come back as entities; a text without them comes back as it is.
escapeHtml(text) ==
  CASE text = "<b>" -> "&lt;b&gt;"
    [] text = "&lt;b&gt;" -> "&amp;lt;b&amp;gt;"
    [] OTHER -> text

\* The editor of a page that logged in as currentUsername and has loaded a
\* notepad with the given content (loadNotepad), and the events on their way
\* to its socket.
LoggedInPage(currentUser, content) ==
  [innerHTML |-> escapeHtml(content),
   currentUsername |-> currentUser,
   inbox |-> << >>]

\* a content-update handler without the test of data.editor
OnContentUpdateAlways(pg, data) ==
  [pg EXCEPT !.innerHTML = escapeHtml(data.content)]

\* socket.on('content-update') of the page: the editor takes the escaped
\* content unless the event names the page's own user
OnContentUpdate(pg, data) ==
  IF data.editor # pg.currentUsername
    THEN [pg EXCEPT !.innerHTML = escapeHtml(data.content)]
    ELSE pg

\* Two pages have logged in to notepad main with the right password, c1 as
\* sabs and c2 under either name, and have loaded its empty content; their
\* sockets are not connected yet.  The row was made at time 0.
InitPages ==
  /\ conn = [c \in ConnIds |-> "idle"]
  /\ rooms = [d \in NotepadIds |-> {}]
  /\ activeUsers = [d \in {} |-> {}]
  /\ notepads = [d \in {"main"} |-> NewNotepad]
  /\ subs = << >>
  /\ cbQueue = << >>
  /\ commits = << >>
  /\ updates = << >>
  /\ lastActive = [d \in NotepadIds |-> NotEmitted]
  /\ feedback = [d \in NotepadIds |-> "none"]
  /\ last = [op |-> "start", conn |-> "-", notepadId |-> "-", left |-> {},
             events |-> {}, status |-> "-"]
  /\ client = [c \in ConnIds |->
                 AfterAuth(LoadedPage("main"),
                           AuthResponse([d \in {"main"} |-> NewNotepad],
                                        "main", TRUE))]
  /\ clock = [now |-> 0, updated_at |-> [d \in {"main"} |-> 0],
              written |-> << >>, timestamp |-> << >>]
  /\ \E u \in Usernames :
       page = [c \in ConnIds |->
                 LoggedInPage(IF c = "c1" THEN currentUsername(c) ELSE u,
                              NewNotepad.content)]

\* The user edits and the input handler's timer runs saveContent: the editor
\* holds text, and content-change carries editor.innerHTML and the name the
\* page logged in with.  The socket sent join-notepad before, on the same
\* connection.
Input(c, text) ==
  /\ c \in rooms[client[c].notepadId]
  /\ CanEmit(client[c])
  /\ Len(subs) < MaxPageSubs
  /\ page' = [page EXCEPT ![c].innerHTML = text]
  /\ client' = [client EXCEPT ![c].saveStatus = "saving"]
  /\ ContentChange(c, [notepadId |-> client[c].notepadId,
                       content |-> page'[c].innerHTML,
                       username |-> page[c].currentUsername])
  /\ UNCHANGED <<feedback, clock>>

\* db.run with the clock: the UPDATE sets updated_at = CURRENT_TIMESTAMP, the
\* time at which sqlite runs the statement
StampedUpdate(i, err) ==
  /\ DbRun(i, err)
  /\ clock' = IF err \/ subs[i].notepadId \notin DOMAIN notepads
                THEN clock
                ELSE [clock EXCEPT !.updated_at[subs[i].notepadId] = clock.now,
                                   !.written = Append(@, clock.now)]
  /\ UNCHANGED <<feedback, client, page>>

\* The handler resumes: timestamp: new Date().toISOString() is the time of
\* the emit, and the event is on its way to each socket it is emitted to.
TimedCallback(i) ==
  /\ Callback(i)
  /\ LET new == SubSeq(updates', Len(updates) + 1, Len(updates'))
         data(u) == [content |-> u.content, editor |-> u.editor,
                     timestamp |-> clock.now]
     IN /\ clock' = [clock EXCEPT !.timestamp =
                       @ \o [k \in 1..Len(new) |-> clock.now]]
        /\ page' = [c \in DOMAIN page |->
                      [page[c] EXCEPT !.inbox =
                         @ \o [k \in 1..Len(SelectSeq(new, LAMBDA u : c \in u.to))
                                 |-> data(SelectSeq(new, LAMBDA u : c \in u.to)[k])]]]
  /\ UNCHANGED <<feedback, client>>

\* a content-update event arrives at the page of c
Receive(c) ==
  /\ page[c].inbox # << >>
  /\ page' = [page EXCEPT ![c] =
                [OnContentUpdate(@, Head(@.inbox)) EXCEPT
                   !.inbox = Tail(page[c].inbox)]]
  /\ UNCHANGED <<conn, rooms, activeUsers, notepads, subs, cbQueue, commits,
                 updates, lastActive, feedback, last, client, clock>>

\* time passes on the server
Tick ==
  /\ clock.now < MaxClock
  /\ clock' = [clock EXCEPT !.now = @ + 1]
  /\ UNCHANGED <<conn, rooms, activeUsers, notepads, subs, cbQueue, commits,
                 updates, lastActive, feedback, last, client, page>>

NextPages ==
  \/ \E c \in ConnIds :
        /\ PageConnect(c)
        /\ Ran("connection", c, "-", {}, {})
        /\ UNCHANGED shown
  \/ \E c \in ConnIds :
        /\ PageJoin(c)
        /\ Ran("join-notepad", c, client[c].notepadId, {},
               JoinEvents(activeUsers', rooms', c, client[c].notepadId))
        /\ UNCHANGED shown
  \/ \E c \in ConnIds : \E text \in Typed(Len(subs) + 1) :
        /\ Input(c, text)
        /\ Ran("content-change", c, client[c].notepadId, {}, {})
  \/ \E i \in 1..MaxSubs, err \in BOOLEAN :
        StampedUpdate(i, err) /\ UNCHANGED last
  \/ \E i \in 1..MaxSubs :
        /\ TimedCallback(i)
        /\ Ran("content-change", subs[i].conn, subs[i].notepadId, {},
               NewUpdateEvents)
  \/ \E c \in ConnIds : Receive(c)

\* the editors with the clock standing still
SpecPages == InitPages /\ [][NextPages]_vars

\* the pages as in InitPages, their editors not followed
InitTime ==
  /\ conn = [c \in ConnIds |-> "idle"]
  /\ rooms = [d \in NotepadIds |-> {}]
  /\ activeUsers = [d \in {} |-> {}]
  /\ notepads = [d \in {"main"} |-> NewNotepad]
  /\ subs = << >>
  /\ cbQueue = << >>
  /\ commits = << >>
  /\ updates = << >>
  /\ lastActive = [d \in NotepadIds |-> NotEmitted]
  /\ feedback = [d \in NotepadIds |-> "none"]
  /\ last = [op |-> "start", conn |-> "-", notepadId |-> "-", left |-> {},
             events |-> {}, status |-> "-"]
  /\ client = [c \in ConnIds |->
                 AfterAuth(LoadedPage("main"),
                           AuthResponse([d \in {"main"} |-> NewNotepad],
                                        "main", TRUE))]
  /\ clock = [now |-> 0, updated_at |-> [d \in {"main"} |-> 0],
              written |-> << >>, timestamp |-> << >>]
  /\ page = NoPages

NextTime ==
  \/ \E c \in ConnIds :
        /\ PageConnect(c)
        /\ Ran("connection", c, "-", {}, {})
        /\ UNCHANGED shown
  \/ \E c \in ConnIds :
        /\ PageJoin(c)
        /\ Ran("join-notepad", c, client[c].notepadId, {},
               JoinEvents(activeUsers', rooms', c, client[c].notepadId))
        /\ UNCHANGED shown
  \/ \E c \in ConnIds : \E data \in ChangeData(c, Len(subs) + 1) :
        /\ c \in rooms[client[c].notepadId]
        /\ CanEmit(client[c])
        /\ SaveContent(c, data)
        /\ Ran("content-change", c, data.notepadId, {}, {})
        /\ UNCHANGED shown
  \/ \E i \in 1..MaxSubs, err \in BOOLEAN :
        StampedUpdate(i, err) /\ UNCHANGED last
  \/ \E i \in 1..MaxSubs :
        /\ TimedCallback(i)
        /\ Ran("content-change", subs[i].conn, subs[i].notepadId, {},
               NewUpdateEvents)
  \/ Tick

\* the server's clock and the times it stamps
SpecTime == InitTime /\ [][NextTime]_vars

----------------------------------------------------------------------------
(* client: saveContent *)

\* The save indicator of the client that sent a content-change: 'saving' when
\* it emits, then what the acknowledgment callback sets.
saveStatus(ack) ==
  IF ack = "none" THEN "saving"
  ELSE IF ack = "success" THEN "saved" ELSE "error"

----------------------------------------------------------------------------
(* Properties *)

SubIds == 1..Len(subs)

UpdateIds == 1..Len(updates)

IsPrefix(a, b) ==
  /\ Len(a) <= Len(b)
  /\ \A k \in 1..Len(a) : a[k] = b[k]

\* the statements on notepad d that ran without error, in execution order
CommitsTo(d) == SelectSeq(commits, LAMBDA i : subs[i].notepadId = d)

\* the content-update events of notepad d, in emission order
UpdatesOf(d) == SelectSeq(updates, LAMBDA u : u.notepadId = d)

\* the submissions whose content-update was emitted to room d, in emission order
EmittedSubs(d) ==
  LET us == UpdatesOf(d) IN [k \in 1..Len(us) |-> us[k].sub]

\* the content-update events of notepad d that were sent to connection c
UpdatesTo(d, c) == SelectSeq(UpdatesOf(d), LAMBDA u : c \in u.to)

Finished(i) == subs[i].stage = "done"

\* C1: the row of a notepad holds the content and editor of the submission
\* whose UPDATE ran last on it, whatever the order in which the submissions
\* were received.
C1_LastWriterWins ==
  \A d \in NotepadIds :
    LET cs == CommitsTo(d) IN
      cs # << >> =>
        /\ notepads[d].content = subs[cs[Len(cs)]].content
        /\ notepads[d].last_editor = subs[cs[Len(cs)]].username

\* two submissions to one notepad, received 1 then 2, persisted 2 then 1, both
\* handlers finished
C1_Witness ==
  /\ Len(subs) = 2
  /\ CommitsTo("main") = <<2, 1>>
  /\ Finished(1) /\ Finished(2)
  /\ notepads["main"].content = Texts[1]

\* C2: no content-update event is sent to the connection whose content-change
\* produced it, also when that connection is in the room.
C2_NoSelfEcho ==
  \A k \in UpdateIds : subs[updates[k].sub].conn \notin updates[k].to

\* an event emitted while its submitter and another connection were in the room
C2_Witness ==
  \E k \in UpdateIds :
    /\ subs[updates[k].sub].conn \in updates[k].room
    /\ updates[k].to # {}

\* C3: the count of the last active-users event of a room is the number of
\* connections that joined the room and have not disconnected.
C3_PresenceCount ==
  \A d \in NotepadIds :
    lastActive[d].emitted => lastActive[d].count = Cardinality(rooms[d])

\* c1 joined both rooms, c2 joined main, c1 disconnected: main went 1, 2, 1 and
\* n1 went 1, 0
C3_Witness ==
  /\ conn["c1"] = "closed" /\ conn["c2"] = "open"
  /\ lastActive["main"] = [emitted |-> TRUE, count |-> 1, to |-> {"c2"}]
  /\ lastActive["n1"] = [emitted |-> TRUE, count |-> 0, to |-> {}]

\* C4: a content-change whose UPDATE succeeded is acknowledged to its sender
\* with {success: true}, and the sender's indicator shows 'saved'.
C4_AckOnSuccess ==
  \A i \in SubIds :
    (Finished(i) /\ ~subs[i].err) =>
      (subs[i].ack = "success" /\ saveStatus(subs[i].ack) = "saved")

\* C5: a content-change whose UPDATE failed is acknowledged to its sender with
\* {success: false}.
C5_AckOnFailure ==
  \A i \in SubIds :
    (Finished(i) /\ subs[i].err) => subs[i].ack = "failure"

\* C6: no content-update event is emitted for a content-change whose UPDATE
\* failed.
C6_NoUpdateOnFailure ==
  \A i \in SubIds :
    subs[i].err => \A k \in UpdateIds : updates[k].sub # i

\* a failed submission has finished while both connections sit in its room
C6_Witness ==
  \E i \in SubIds :
    /\ Finished(i) /\ subs[i].err
    /\ rooms[subs[i].notepadId] = ConnIds

\* the steps of the content-change handler of a submission whose UPDATE fails:
\* the statement fails, the handler resumes in its catch branch
FailureStep ==
  \E i \in SubIds :
    \/ subs[i].stage = "pending" /\ subs'[i].stage = "executed" /\ subs'[i].err
    \/ subs[i].stage = "executed" /\ subs[i].err /\ subs'[i].stage = "done"

\* C7: a content-change whose UPDATE fails leaves the notepads table and the
\* presence map as they were; so does the receipt of any content-change.
C7_FailureFrame ==
  [][(FailureStep \/ Len(subs') > Len(subs)) =>
       (notepads' = notepads /\ activeUsers' = activeUsers)]_vars

\* a submission failed on a notepad that holds the text of another submission,
\* with a connection present
C7_Witness ==
  /\ Len(subs) = 2
  /\ subs[1].notepadId = "main" /\ subs[2].notepadId = "main"
  /\ commits = <<1>>
  /\ Finished(2) /\ subs[2].err
  /\ notepads["main"] = [content |-> Texts[1], last_editor |-> subs[1].username]
  /\ "main" \in DOMAIN activeUsers

\* C8: a content-change whose UPDATE succeeded has, once its handler is done,
\* exactly one content-update event; the event carries the submission's
\* content and user name and goes to every connection of the room other than
\* the sender.
C8_UpdateReachesOthers ==
  /\ \A i \in SubIds :
       (Finished(i) /\ ~subs[i].err) =>
         Cardinality({k \in UpdateIds : updates[k].sub = i}) = 1
  /\ \A k \in UpdateIds :
       LET u == updates[k]
           s == subs[u.sub]
       IN /\ u.notepadId = s.notepadId
          /\ u.content = s.content
          /\ u.editor = s.username
          /\ u.room \ {s.conn} \subseteq u.to
          /\ u.to \subseteq u.room

\* c1 and c2 are in room main, c1 submits: c2 is sent content and editor
C8_Witness ==
  \E k \in UpdateIds :
    /\ subs[updates[k].sub].conn = "c1"
    /\ updates[k].notepadId = "main"
    /\ updates[k].room = {"c1", "c2"}
    /\ updates[k].to = {"c2"}
    /\ updates[k].content = subs[updates[k].sub].content
    /\ updates[k].editor = "sabs"

C10_RaceOutcome ==
  \A i, j \in SubIds :
    LET d == subs[i].notepadId
        ci == subs[i].conn
        cj == subs[j].conn
    IN ( /\ subs[j].notepadId = d
         /\ ci # cj
         /\ CommitsTo(d) = <<i, j>>
         /\ Finished(i) /\ Finished(j)
         /\ \A u \in {updates[k] : k \in UpdateIds} :
              u.sub = i => {ci, cj} \subseteq u.room
         /\ conn[ci] = "open" /\ conn[cj] = "open" )
       =>
       ( /\ notepads[d].content = subs[j].content
         /\ Len(UpdatesTo(d, ci)) = 1
         /\ UpdatesTo(d, ci)[1].content = subs[j].content )

\* c1 and c2, both in room main, had their saves in flight together; c2's
\* UPDATE ran first, c1's second
C10_Witness ==
  /\ Len(subs) = 2
  /\ subs[1].conn = "c1" /\ subs[2].conn = "c2"
  /\ CommitsTo("main") = <<2, 1>>
  /\ Finished(1) /\ Finished(2)
  /\ \A k \in UpdateIds : updates[k].room = {"c1", "c2"}
  /\ conn["c1"] = "open" /\ conn["c2"] = "open"
  /\ Len(UpdatesTo("main", "c2")) = 1

\* the presence sets that hold connection c
PresenceOf(c) == {d \in DOMAIN activeUsers : c \in activeUsers[d]}

\* C11 (as claimed): a connection is in at most one presence set, also when it
\* sends join-notepad for two notepads.
C11_AtMostOneRoom ==
  \A c \in ConnIds : Cardinality(PresenceOf(c)) <= 1

\* C11 (amended): a connection is in the presence sets of exactly the rooms it
\* joined since it connected, and in none once it has disconnected; so it is
\* in at most one set as long as it joined at most one room.
C11_PresenceIsJoined ==
  \A c \in ConnIds :
    /\ PresenceOf(c) = {d \in NotepadIds : c \in rooms[d]}
    /\ conn[c] # "open" => PresenceOf(c) = {}

\* c1 sits in both presence sets, c2 has left both
C11_Witness ==
  /\ PresenceOf("c1") = {"main", "n1"}
  /\ conn["c2"] = "closed"
  /\ lastActive["n1"] = [emitted |-> TRUE, count |-> 1, to |-> {"c1"}]

\* C12: join-notepad from a connection that is already in the set of that
\* notepad leaves activeUsers as it is and emits the count that was emitted
\* last.
C12_JoinIdempotent ==
  [][\A c \in ConnIds, d \in DOMAIN activeUsers :
       ( /\ c \in activeUsers[d]
         /\ last'.op = "join-notepad" /\ last'.conn = c /\ last'.notepadId = d )
       =>
       ( /\ activeUsers' = activeUsers
         /\ \A e \in last'.events :
              /\ e.count = lastActive[d].count
              /\ e.count = Cardinality(activeUsers[d]) )]_vars

\* c1 was in room main when a content-update went out there, and the handler
\* that ran last is a join-notepad of c1 for main, with c2 present
C12_Witness ==
  /\ last.op = "join-notepad" /\ last.conn = "c1" /\ last.notepadId = "main"
  /\ \E k \in UpdateIds :
       updates[k].notepadId = "main" /\ "c1" \in updates[k].room
  /\ \A e \in last.events : e.count = 2

\* C13: no entry of activeUsers is an empty set.
C13_NoEmptyEntry ==
  \A d \in DOMAIN activeUsers : activeUsers[d] # {}

\* the entry of main was made and deleted again, the entry of n1 is there
C13_Witness ==
  /\ "main" \notin DOMAIN activeUsers
  /\ lastActive["main"].emitted /\ lastActive["main"].count = 0
  /\ "n1" \in DOMAIN activeUsers

\* C14: join-notepad emits active-users to every socket of the room, the
\* joiner included; disconnect emits it, for every room the socket was in, to
\* every socket left in that room.
C14_ActiveUsersToAll ==
  /\ last.op = "join-notepad" =>
       /\ last.events = {Event("active-users", last.notepadId,
                               rooms[last.notepadId],
                               Cardinality(rooms[last.notepadId]))}
       /\ last.conn \in rooms[last.notepadId]
  /\ last.op = "disconnect" =>
       /\ {e.notepadId : e \in last.events} = last.left
       /\ \A e \in last.events :
            e.event = "active-users" /\ e.to = rooms[e.notepadId]

\* c1 left rooms main and n1; c2, still in main, is sent the count
C14_Witness ==
  /\ last.op = "disconnect" /\ last.conn = "c1"
  /\ last.left = {"main", "n1"}
  /\ last.events = {Event("active-users", "main", {"c2"}, 1),
                    Event("active-users", "n1", {}, 0)}

\* C15: the disconnect of a connection that is in no presence set leaves
\* activeUsers as it is and emits nothing.
C15_DisconnectNoop ==
  [][\A c \in ConnIds :
       ( /\ conn[c] = "open" /\ conn'[c] = "closed"
         /\ PresenceOf(c) = {} )
       =>
       ( /\ activeUsers' = activeUsers
         /\ lastActive' = lastActive
         /\ last'.op = "disconnect" /\ last'.events = {} )]_vars

\* c2 connected and disconnected without joining while c1 sat in room main
C15_Witness ==
  /\ last.op = "disconnect" /\ last.conn = "c2" /\ last.left = {}
  /\ "main" \in DOMAIN activeUsers
  /\ ~lastActive["n1"].emitted

\* C16: every event (active-users, content-update, feedback-added) goes only
\* to sockets that are in the room it is emitted to.
C16_RoomIsolation ==
  /\ \A e \in last.events : e.to \subseteq rooms[e.notepadId]
  /\ \A d \in NotepadIds : lastActive[d].to \subseteq rooms[d]

\* feedback for n1 reaches c2 in room n1 and not c1, which is in room main only
C16_Witness ==
  /\ last.op = "feedback"
  /\ last.events = {Event("feedback-added", "n1", {"c2"}, 0)}
  /\ rooms["main"] = {"c1"}

\* C17: a content-update goes to sockets that are connected and in the room
\* when it is emitted, and to no other socket later: a socket that joins
\* afterwards is not sent the events it missed.
C17_NoReplay ==
  [][ /\ \A k \in 1..Len(updates) : updates'[k] = updates[k]
      /\ \A k \in (Len(updates) + 1)..Len(updates') :
           \A c \in updates'[k].to :
             conn[c] = "open" /\ c \in rooms[updates'[k].notepadId] ]_vars

\* a content-update went to room main while c2 was not in it; c2 has joined
\* since and is not among the sockets the event went to
C17_Witness ==
  \E k \in UpdateIds :
    /\ updates[k].notepadId = "main"
    /\ "c2" \notin updates[k].room
    /\ "c2" \in rooms["main"]
    /\ "c2" \notin updates[k].to

\* C18: a page whose login was answered with the blank flag never opens a
\* socket and never sends a content-change, whatever it does afterwards, and
\* no statement of its making runs on the table.
C18_BlankNeverSubmits ==
  \A c \in ConnIds :
    client[c].response = "blank" =>
      /\ conn[c] = "idle"
      /\ \A i \in SubIds : subs[i].conn # c
      /\ \A k \in 1..Len(commits) : subs[commits[k]].conn # c

\* the page of c2 is in blank mode and has run saveContent; notepad main has
\* the text that c1, logged in to the same notepad, has saved
C18_Witness ==
  /\ client["c2"].response = "blank" /\ client["c2"].isBlankMode
  /\ client["c2"].saveStatus = "saving"
  /\ client["c2"].notepadId = "main"
  /\ \E i \in SubIds : subs[i].conn = "c1" /\ subs[i].notepadId = "main"
  /\ notepads["main"].content # ""

\* the handlers C19 names as leaving the stored content alone
FrameOps == {"connection", "join-notepad", "disconnect", "cursor-position",
             "feedback", "auth"}

C20_UnknownIdFails ==
  /\ \A d \in NotepadIds \ DOMAIN notepads :
       /\ \A valid \in BOOLEAN : ~AuthResponse(notepads, d, valid).success
       /\ ~GetResponse(notepads, d).success
       /\ \A f \in {"raw", "markdown", "code"} :
            ~ExportResponse(notepads, d, f).success
  /\ \A i \in SubIds :
       (subs[i].stage = "done" /\ subs[i].notepadId \notin DOMAIN notepads) =>
         /\ saveStatus(subs[i].ack) = "error"
         /\ \A k \in UpdateIds : updates[k].sub # i

\* C21 (as claimed): no handler run ends in an unhandled rejection, and a
\* feedback request whose INSERT fails is answered with status 500.
C21_NoUnhandledRejection ==
  /\ last.status # "unhandledRejection"
  /\ (last.op = "feedback" /\ last.events = {}) => last.status = "500"

\* C22: a feedback request whose INSERT succeeded has emitted exactly one
\* feedback-added event, to every socket in the room of its notepad; one whose
\* INSERT failed has emitted nothing.
C22_FeedbackBroadcast ==
  last.op = "feedback" =>
    /\ last.status \in {"200", "500"}
    /\ last.status = "200" =>
         last.events = {Event("feedback-added", last.notepadId,
                              rooms[last.notepadId], 0)}
    /\ last.status = "500" => last.events = {}

\* feedback for main was stored while c1 and c2 were in room main: both are
\* sent the event
C22_Witness ==
  /\ last.op = "feedback" /\ last.status = "200"
  /\ last.events = {Event("feedback-added", "main", {"c1", "c2"}, 0)}

\* C30: the disconnect of a connection removes it from every presence set
\* that has it, emits one active-users event with the decremented count for
\* each of these documents and for no other, deletes the entries that became
\* empty and leaves the other entries as they were.
C30_DisconnectAll ==
  [][\A c \in ConnIds :
       (conn[c] = "open" /\ conn'[c] = "closed")
       =>
       LET had == PresenceOf(c)
       IN /\ last'.op = "disconnect" /\ last'.left = had
          /\ DOMAIN activeUsers' = {d \in DOMAIN activeUsers :
                                      activeUsers[d] # {c}}
          /\ \A d \in DOMAIN activeUsers' :
               activeUsers'[d] = activeUsers[d] \ {c}
          /\ \A d \in DOMAIN activeUsers \ had :
               d \in DOMAIN activeUsers' /\ activeUsers'[d] = activeUsers[d]
          /\ \A d \in NotepadIds :
               {e \in last'.events : e.notepadId = d} =
                 IF d \in had
                 THEN {Event("active-users", d, rooms[d] \ {c},
                             Cardinality(activeUsers[d]) - 1)}
                 ELSE {}]_vars

\* c1 had joined main and n1, c2 only n1; c1 disconnected: entry main is
\* deleted and its room told 0, entry n1 keeps c2, who is told 1
C30_Witness ==
  /\ last.op = "disconnect" /\ last.conn = "c1"
  /\ last.left = {"main", "n1"}
  /\ last.events = {Event("active-users", "main", {}, 0),
                    Event("active-users", "n1", {"c2"}, 1)}
  /\ DOMAIN activeUsers = {"n1"} /\ activeUsers["n1"] = {"c2"}

\* C28: a content-change of a connection that is not in the room of the
\* document it names is treated as any other: its UPDATE writes the row when
\* sqlite runs it, and when the handler resumes the content-update goes to
\* every socket in that room.
C28_NoMembershipCheck ==
  [][\A i \in SubIds :
       LET s == subs[i]
           d == s.notepadId
       IN s.conn \notin rooms[d] =>
            /\ ( /\ s.stage = "pending" /\ subs'[i].stage = "executed"
                 /\ ~subs'[i].err /\ d \in DOMAIN notepads )
               => /\ notepads'[d].content = s.content
                  /\ notepads'[d].last_editor = s.username
            /\ (s.stage = "executed" /\ subs'[i].stage = "done" /\ ~s.err)
               => /\ Len(updates') = Len(updates) + 1
                  /\ updates'[Len(updates')].sub = i
                  /\ updates'[Len(updates')].content = s.content
                  /\ updates'[Len(updates')].to = rooms[d]]_vars

\* c2 is connected and in no room, so it never sent join-notepad; its text is
\* in row main and went to c1, who is in room main
C28_Witness ==
  /\ conn["c2"] = "open" /\ \A d \in NotepadIds : "c2" \notin rooms[d]
  /\ rooms["main"] = {"c1"}
  /\ last.op = "content-change" /\ last.conn = "c2"
  /\ last.events = {Event("content-update", "main", {"c1"}, 0)}
  /\ \E i \in SubIds : /\ subs[i].conn = "c2" /\ subs[i].stage = "done"
                       /\ notepads["main"].content = subs[i].content

\* C29: a content-change whose socket has disconnected runs on: the UPDATE
\* still writes the row, and after it the content-update goes to the sockets
\* still in the room.
C29_DisconnectCancelsNothing ==
  [][\A i \in SubIds :
       LET s == subs[i]
           d == s.notepadId
       IN conn[s.conn] = "closed" =>
            /\ ( /\ s.stage = "pending" /\ subs'[i].stage = "executed"
                 /\ ~subs'[i].err /\ d \in DOMAIN notepads )
               => /\ notepads'[d].content = s.content
                  /\ i = commits'[Len(commits')]
            /\ (s.stage = "executed" /\ subs'[i].stage = "done" /\ ~s.err)
               => /\ Len(updates') = Len(updates) + 1
                  /\ updates'[Len(updates')].sub = i
                  /\ updates'[Len(updates')].to = rooms[d]
                  /\ last'.events = {Event("content-update", d, rooms[d], 0)}]_vars

\* c1 sent a text for main and disconnected before the handler resumed; the
\* text is stored and c2, still in room main, is sent the content-update
C29_Witness ==
  /\ conn["c1"] = "closed"
  /\ last.op = "content-change" /\ last.conn = "c1"
  /\ last.events = {Event("content-update", "main", {"c2"}, 0)}
  /\ \E i \in SubIds : /\ subs[i].conn = "c1" /\ subs[i].stage = "done"
                       /\ notepads["main"].content = subs[i].content

\* C27 (as claimed): a save that was emitted has left 'saving' for 'saved' or
\* 'error' once the server has run its handler to the end.  Nothing runs for
\* the save after that, so a page that shows 'saving' then shows it for good.
C27_SaveLeavesSaving ==
  \A i \in SubIds :
    Finished(i) => client[subs[i].conn].saveStatus \in {"saved", "error"}

\* C23: while the UPDATE of a content-change for one document is pending,
\* every operation on another document can take its next step: an open socket
\* can join it, disconnect, or submit a content-change for it; a pending
\* UPDATE for it can run; and a handler whose UPDATE has run is never queued
\* behind the pending one, so the handler at the head of the queue resumes
\* and emits.
C23_OtherDocumentProceeds ==
  [](\A i \in SubIds :
       subs[i].stage = "pending" =>
         \A d \in NotepadIds \ {subs[i].notepadId} :
           /\ \A c \in ConnIds :
                conn[c] = "open" =>
                  /\ ENABLED JoinNotepad(c, d)
                  /\ ENABLED Disconnect(c)
                  /\ Len(subs) < MaxSubs =>
                       \A data \in ChangeData(c, Len(subs) + 1) :
                         data.notepadId = d => ENABLED ContentChange(c, data)
           /\ \A j \in SubIds :
                subs[j].notepadId = d =>
                  /\ subs[j].stage = "pending" =>
                       ENABLED DbRun(j, FALSE) /\ ENABLED DbRun(j, TRUE)
                  /\ subs[j].stage = "executed" =>
                       /\ \E k \in 1..Len(cbQueue) : cbQueue[k] = j
                       /\ \A k \in 1..Len(cbQueue) : cbQueue[k] # i
                       /\ ENABLED Callback(Head(cbQueue)))

\* the UPDATE of submission 1 for main is still pending; submission 2, sent
\* later for n1, is stored and its content-update went to the room of n1
C23_Witness ==
  /\ Len(subs) = 2
  /\ subs[1].notepadId = "main" /\ subs[1].stage = "pending"
  /\ subs[2].notepadId = "n1" /\ Finished(2)
  /\ commits = <<2>>
  /\ notepads["n1"].content = subs[2].content
  /\ \E k \in UpdateIds : /\ updates[k].sub = 2 /\ updates[k].to # {}
                          /\ updates[k].to \subseteq rooms["n1"]

\* the time the UPDATE of submission i stamped on its row (i is in commits)
WrittenAt(i) ==
  clock.written[CHOOSE j \in 1..Len(commits) : commits[j] = i]

\* C24 (as claimed): the timestamp of every content-update event is the
\* updated_at value that the UPDATE it announces stamped on the row.
C24_TimestampIsUpdatedAt ==
  \A k \in UpdateIds : clock.timestamp[k] = WrittenAt(updates[k].sub)

\* the pages followed here are both connected and in the room of their notepad
AllJoined == \A c \in DOMAIN page : c \in rooms[client[c].notepadId]

\* every content-change has been stored and its handler is done, and every
\* content-update has arrived
Settled ==
  /\ subs # << >>
  /\ \A i \in SubIds : Finished(i) /\ ~subs[i].err
  /\ \A c \in DOMAIN page : page[c].inbox = << >>

\* C25 (as claimed): when two pages with different user names are in the room
\* and all their submissions are stored, emitted and delivered, each editor
\* holds the stored content.
C25_Convergence ==
  ( /\ AllJoined /\ Settled
    /\ page["c1"].currentUsername # page["c2"].currentUsername )
  => \A c \in DOMAIN page :
       page[c].innerHTML = notepads[client[c].notepadId].content

\* C26: a page that receives a content-update puts the escaped content in its
\* editor when the event names another user and leaves the editor alone when
\* it names its own; so of two pages logged in under one name neither ever
\* shows what the other saved, though every such event reaches it.
C26_AppliesIffOtherEditor ==
  [][\A c \in DOMAIN page :
       /\ Len(page'[c].inbox) < Len(page[c].inbox) =>
            LET data == Head(page[c].inbox)
            IN page'[c].innerHTML =
                 IF data.editor # page[c].currentUsername
                   THEN escapeHtml(data.content)
                   ELSE page[c].innerHTML
       /\ \A o \in DOMAIN page \ {c} :
            page[o].currentUsername = page[c].currentUsername =>
              /\ \A k \in 1..Len(page[c].inbox) :
                   page[c].inbox[k].editor = page[c].currentUsername
              /\ page'[c].innerHTML # page[c].innerHTML =>
                   \E i \in 1..Len(subs') :
                     subs'[i].conn = c /\ subs'[i].content = page'[c].innerHTML]_vars

\* c1 and c2 are both logged in as sabs; c1 saved a text, it is stored, the
\* content-update was emitted to c2 and has arrived, and the editor of c2 is
\* still empty
C26_Witness ==
  /\ page["c1"].currentUsername = page["c2"].currentUsername
  /\ \E k \in UpdateIds : /\ subs[updates[k].sub].conn = "c1"
                          /\ "c2" \in updates[k].to
                          /\ notepads["main"].content = updates[k].content
  /\ \A i \in SubIds : subs[i].conn = "c1" /\ Finished(i)
  /\ page["c2"].inbox = << >>
  /\ page["c2"].innerHTML = ""
  /\ page["c1"].innerHTML # ""

====
